---- MODULE Spec2Model ----
(***************************************************************************)
(* Task lifecycle and scheduling core of the AI agent:                     *)
(*   - TaskManager (src/src/modules/task_management.py): the ready queue   *)
(*     (a PriorityQueue, i.e. a binary heap ordered by Task.__lt__), the   *)
(*     scheduled / active / completed / failed dictionaries, and the       *)
(*     background scheduler thread that promotes due tasks;                *)
(*   - OrchestrationLayer (src/src/modules/orchestration.py): the task     *)
(*     registry and execute_task, run by concurrent request threads.       *)
(* Every step is one atomic statement of the Python code (a dictionary or  *)
(* queue operation, or a collaborator call); threads interleave between    *)
(* steps.                                                                  *)
(***************************************************************************)
EXTENDS Integers, Sequences, FiniteSets, TLC

VARIABLES
    \* ---- TaskManager ----
    task_queue,       \* PriorityQueue.queue: the heap array of Task objects
    scheduled_tasks,  \* dict id -> Task, as the sequence of its live entries in insertion order
    active_tasks,     \* dict id -> Task
    completed_tasks,  \* dict id -> Task
    failed_tasks,     \* dict id -> Task
    metadata,         \* the metadata dict object of each task (shared by reference)
    now,              \* datetime.now(), in ticks
    \* ---- scheduler thread (_scheduler_loop) ----
    s_pc,             \* position in the loop
    s_current_time,   \* local current_time
    s_tasks_to_queue, \* local tasks_to_queue
    s_iter,           \* dict iterator of the scan: [pos, used]
    s_task,           \* local task of the move loop
    \* ---- caller threads of the TaskManager ----
    c_pc, c_arg, c_ret,
    \* ---- history ----
    added,            \* how many tasks add_task has taken (ids are 1..added)
    cancelled,        \* ids for which cancel_task returned True
    promoted,         \* ids the scheduler loop has put into the ready queue
    returned,         \* ids get_next_task has taken from the ready queue
    \* ---- TaskManager life cycle ----
    scheduler_running, \* self.scheduler_running
    shutdown_returned, \* history: a shutdown() call has returned
    \* ---- OrchestrationLayer ----
    tasks,            \* self.tasks: the registry, id -> task record
    \* ---- request threads inside execute_task ----
    o_pc,             \* position in execute_task
    o_task_id,        \* argument task_id
    o_result,         \* local result (dev_result inside the development handler)
    o_e,              \* the exception caught by the except clause
    o_ret,            \* what the call gave its caller
    \* ---- history ----
    calls,            \* how many execute_task calls have begun
    o_before,         \* the task's result field when the thread's call began
    o_commit          \* what commit_task_changes reported to the thread's call

tmvars == <<task_queue, scheduled_tasks, active_tasks, completed_tasks, failed_tasks,
            metadata, now, s_pc, s_current_time, s_tasks_to_queue, s_iter, s_task,
            c_pc, c_arg, c_ret, added, cancelled, promoted, returned,
            scheduler_running, shutdown_returned>>

lifevars == <<scheduler_running, shutdown_returned>>

orchvars == <<tasks, o_pc, o_task_id, o_result, o_e, o_ret, calls, o_before, o_commit>>

vars == <<tmvars, orchvars>>

\* ---------------------------------------------------------------- bounds
MaxTasks == 2
MaxTime == 1
MaxReady == 4
MaxCreated == 1
MaxCalls == 2

Callers == {1}
\* request threads of the web server (main.py runs Flask's threaded server)
Threads == {1, 2}
\* Optional values: None is the empty tuple, a present value v is <<v>>
None == <<>>
Some(v) == <<v>>
\* what an operation gave its caller: a tagged value, or an exception
ReturnNone == <<"None">>
ReturnBool(b) == <<"bool", b>>
ReturnId(id) == <<"id", id>>
ReturnTask(task) == <<"task", task>>
Raise(exception) == <<"raise", exception>>

\* ---------------------------------------------------------------- Priority, Task
LOW == 3
MEDIUM == 2
HIGH == 1

PriorityNames == {"low", "medium", "high", "urgent"}

\* priority_map.get(task_data.get('priority', 'medium'), Priority.MEDIUM.value)
priority_map(p) ==
    CASE p = "low" -> LOW
      [] p = "medium" -> MEDIUM
      [] p = "high" -> HIGH
      [] OTHER -> MEDIUM

\* line 218: datetime.fromisoformat(task.scheduled_at) raises ValueError for a
\* string that is not an ISO date; Malformed stands for such a string
Malformed == 0 - 1
fromisoformat_ok(scheduled_at) == scheduled_at # Malformed

Task(id, priority, scheduled_at) ==
    [id |-> id, priority |-> priority, scheduled_at |-> scheduled_at]

\* a faulty Task.__lt__ that prefers the larger priority value; the priority
\* order of the ready queue does not survive it
Task_lt_reversed(self, other) == self.priority > other.priority

\* Task.__lt__
Task_lt(self, other) == self.priority < other.priority

\* ---------------------------------------------------------------- heapq (PriorityQueue)
RECURSIVE _siftdown(_, _, _)
\* heapq._siftdown(heap, 0, pos) with newitem taken out of heap[pos]
_siftdown(heap, pos, newitem) ==
    IF pos > 1 /\ Task_lt(newitem, heap[pos \div 2])
    THEN _siftdown([heap EXCEPT ![pos] = heap[pos \div 2]], pos \div 2, newitem)
    ELSE [heap EXCEPT ![pos] = newitem]

RECURSIVE _siftup(_, _, _)
\* heapq._siftup(heap, pos): bubble the smaller child up to a leaf, then sift newitem down
_siftup(heap, pos, newitem) ==
    LET endpos == Len(heap)
        childpos == 2 * pos
        rightpos == childpos + 1
        c == IF rightpos <= endpos /\ ~Task_lt(heap[childpos], heap[rightpos])
             THEN rightpos ELSE childpos
    IN  IF childpos <= endpos
        THEN _siftup([heap EXCEPT ![pos] = heap[c]], c, newitem)
        ELSE _siftdown(heap, pos, newitem)

\* PriorityQueue.put -> heapq.heappush
heappush(heap, item) == _siftdown(Append(heap, item), Len(heap) + 1, item)

\* PriorityQueue.get -> heapq.heappop: the heap that is left
heappop_rest(heap) ==
    LET lastelt == heap[Len(heap)]
        rest == SubSeq(heap, 1, Len(heap) - 1)
    IN  IF rest = <<>> THEN rest ELSE _siftup(rest, 1, lastelt)

\* PriorityQueue.get -> heapq.heappop: the item returned
heappop_item(heap) == heap[1]

\* ---------------------------------------------------------------- dictionaries
Keys(seq) == {seq[k].id : k \in 1..Len(seq)}
IndexOf(seq, id) == CHOOSE k \in 1..Len(seq) : seq[k].id = id
RemoveAt(seq, k) == SubSeq(seq, 1, k - 1) \o SubSeq(seq, k + 1, Len(seq))
\* d[key] = value on an insertion-ordered dict: a present key keeps its place
DictSet(seq, task) ==
    IF task.id \in Keys(seq)
    THEN [seq EXCEPT ![IndexOf(seq, task.id)] = task]
    ELSE Append(seq, task)
EmptyDict == <<>>
DictPut(d, k, v) == [x \in DOMAIN d \cup {k} |-> IF x = k THEN v ELSE d[x]]
DictDel(d, k) == [x \in DOMAIN d \ {k} |-> d[x]]

\* ---------------------------------------------------------------- caller helpers
\* a caller thread is between two operations
Idle(c) == c_pc[c] = "idle"

DoneWith(c, value, arg) ==
    /\ c_pc' = [c_pc EXCEPT ![c] = "done"]
    /\ c_arg' = [c_arg EXCEPT ![c] = arg]
    /\ c_ret' = [c_ret EXCEPT ![c] = value]

Done(c, value) == DoneWith(c, value, None)

Goto(c, label, arg) ==
    /\ c_pc' = [c_pc EXCEPT ![c] = label]
    /\ c_arg' = [c_arg EXCEPT ![c] = arg]
    /\ UNCHANGED c_ret

\* ---------------------------------------------------------------- Init
\* the state after TaskManager.__init__ and OrchestrationLayer.__init__, with
\* the given caller threads between operations
InitWith(callers) ==
    /\ task_queue = <<>>
    /\ scheduled_tasks = <<>>
    /\ active_tasks = EmptyDict
    /\ completed_tasks = EmptyDict
    /\ failed_tasks = EmptyDict
    /\ metadata = EmptyDict
    /\ now = 0
    /\ s_pc = "start"
    /\ s_current_time = 0
    /\ s_tasks_to_queue = <<>>
    /\ s_iter = [pos |-> 0, used |-> 0]
    /\ s_task = None
    /\ c_pc = [c \in callers |-> "idle"]
    /\ c_arg = [c \in callers |-> None]
    /\ c_ret = [c \in callers |-> None]
    /\ added = 0
    /\ cancelled = {}
    /\ promoted = {}
    /\ returned = {}
    /\ scheduler_running = TRUE
    /\ shutdown_returned = FALSE
    /\ tasks = EmptyDict
    /\ o_pc = [t \in Threads |-> "idle"]
    /\ o_task_id = [t \in Threads |-> 0]
    /\ o_result = [t \in Threads |-> None]
    /\ o_e = [t \in Threads |-> None]
    /\ o_ret = [t \in Threads |-> None]
    /\ calls = 0
    /\ o_before = [t \in Threads |-> None]
    /\ o_commit = [t \in Threads |-> None]

Init == InitWith(Callers)

\* ---------------------------------------------------------------- TaskManager.add_task
\* add_task(task_data): the Task goes to scheduled_tasks when scheduled_at is
\* truthy, to the ready queue otherwise; returns the id.
add_task_effect(id, priority, scheduled_at) ==
    LET task == Task(id, priority_map(priority), scheduled_at)
    IN  /\ IF task.scheduled_at # None
           THEN /\ scheduled_tasks' = DictSet(scheduled_tasks, task)
                /\ UNCHANGED task_queue
           ELSE /\ task_queue' = heappush(task_queue, task)
                /\ UNCHANGED scheduled_tasks
        /\ added' = added + 1

\* add_task called with a fresh id, 'metadata': {} and the given priority and scheduled_at
add_task(c, priority, scheduled_at) ==
    LET id == added + 1
    IN  /\ add_task_effect(id, priority, scheduled_at)
        /\ metadata' = DictPut(metadata, id, EmptyDict)
        /\ Done(c, ReturnId(id))
        /\ UNCHANGED <<active_tasks, completed_tasks, failed_tasks, now, s_pc, s_current_time,
                       s_tasks_to_queue, s_iter, s_task, cancelled, promoted, returned, lifevars, orchvars>>

\* add_task with or without a due time; a task with a due time is tried with
\* two priorities, so that a promoted task can overtake one that was queued
\* directly; all priority names are tried in AddReadyTask
AddTask(c) ==
    /\ Idle(c)
    /\ added < MaxTasks
    /\ \E scheduled_at \in {None} \cup {Some(t) : t \in 1..MaxTime} :
         \E priority \in (IF scheduled_at = None THEN {"low"} ELSE {"low", "high"}) :
           add_task(c, priority, scheduled_at)

\* add_task with a 'scheduled_at' that is not an ISO date: add_task does not
\* parse the string and stores the Task in scheduled_tasks
AddMalformedTask(c) ==
    /\ Idle(c)
    /\ added < MaxTasks
    /\ \E priority \in {"low", "high"} : add_task(c, priority, Some(Malformed))

\* add_task for a task with no due time (task_data has no 'scheduled_at')
AddReadyTask(c) ==
    /\ Idle(c)
    /\ added < MaxReady
    /\ \E priority \in PriorityNames : add_task(c, priority, None)

\* ---------------------------------------------------------------- TaskManager.get_next_task
\* line 100: if not self.task_queue.empty()
NextCheck(c) ==
    /\ Idle(c)
    /\ IF task_queue # <<>>
       THEN Goto(c, "get", None)
       ELSE Done(c, ReturnNone)
    /\ UNCHANGED <<task_queue, scheduled_tasks, active_tasks, completed_tasks, failed_tasks,
                   metadata, now, s_pc, s_current_time, s_tasks_to_queue, s_iter, s_task,
                   added, cancelled, promoted, returned, lifevars, orchvars>>

\* line 101: task = self.task_queue.get()   (blocks while the queue is empty)
queue_get_task(heap) == heappop_item(heap)
queue_get_rest(heap) == heappop_rest(heap)

NextGet(c) ==
    /\ c_pc[c] = "get"
    /\ task_queue # <<>>
    /\ task_queue' = queue_get_rest(task_queue)
    /\ returned' = returned \cup {queue_get_task(task_queue).id}
    /\ Goto(c, "activate", Some(queue_get_task(task_queue)))
    /\ UNCHANGED <<scheduled_tasks, active_tasks, completed_tasks, failed_tasks, metadata, now,
                   s_pc, s_current_time, s_tasks_to_queue, s_iter, s_task,
                   added, cancelled, promoted, lifevars, orchvars>>

\* lines 102-104: self.active_tasks[task.id] = task; return task
NextActivate(c) ==
    /\ c_pc[c] = "activate"
    /\ active_tasks' = DictPut(active_tasks, c_arg[c][1].id, c_arg[c][1])
    /\ Done(c, ReturnTask(c_arg[c][1]))
    /\ UNCHANGED <<task_queue, scheduled_tasks, completed_tasks, failed_tasks, metadata,
                   now, s_pc, s_current_time, s_tasks_to_queue, s_iter, s_task,
                   added, cancelled, promoted, returned, lifevars, orchvars>>

\* ---------------------------------------------------------------- TaskManager.cancel_task
\* lines 162, 168-174: the membership tests; False when the id is not scheduled
CancelCheck(c) ==
    /\ Idle(c)
    /\ \E task_id \in 1..MaxTasks :
         IF task_id \in Keys(scheduled_tasks)
         THEN Goto(c, "cancel_del", Some(task_id))
         ELSE DoneWith(c, ReturnBool(FALSE), Some(task_id))
    /\ UNCHANGED <<task_queue, scheduled_tasks, active_tasks, completed_tasks, failed_tasks,
                   metadata, now, s_pc, s_current_time, s_tasks_to_queue, s_iter, s_task,
                   added, cancelled, promoted, returned, lifevars, orchvars>>

\* a faulty cancel that leaves the entry in the dictionary
cancel_keep(task_id) ==
    UNCHANGED <<scheduled_tasks, s_iter>>

\* del self.scheduled_tasks[task_id]: the entry becomes a dummy slot; an iterator
\* that is already past it has one live entry less behind it
cancel_del(task_id) ==
    LET k == IndexOf(scheduled_tasks, task_id)
    IN  /\ scheduled_tasks' = RemoveAt(scheduled_tasks, k)
        /\ s_iter' = IF k <= s_iter.pos THEN [s_iter EXCEPT !.pos = @ - 1] ELSE s_iter

\* lines 163-165: del self.scheduled_tasks[task_id]; return True
CancelDel(c) ==
    /\ c_pc[c] = "cancel_del"
    /\ IF c_arg[c][1] \in Keys(scheduled_tasks)
       THEN /\ cancel_del(c_arg[c][1])
            /\ cancelled' = cancelled \cup {c_arg[c][1]}
            /\ DoneWith(c, ReturnBool(TRUE), c_arg[c])
       ELSE /\ DoneWith(c, Raise("KeyError"), c_arg[c])
            /\ UNCHANGED <<scheduled_tasks, s_iter, cancelled>>
    /\ UNCHANGED <<task_queue, active_tasks, completed_tasks, failed_tasks, metadata, now,
                   s_pc, s_current_time, s_tasks_to_queue, s_task, added, promoted, returned, lifevars, orchvars>>

\* ---------------------------------------------------------------- complete_task, fail_task
\* a faulty complete_task / fail_task without the membership test
FinishUnchecked(c) ==
    /\ Idle(c)
    /\ \E task_id \in 1..MaxTasks, op \in {"complete", "fail"} :
         Goto(c, IF op = "complete" THEN "complete_pop" ELSE "fail_pop", Some(task_id))
    /\ UNCHANGED <<task_queue, scheduled_tasks, active_tasks, completed_tasks, failed_tasks,
                   metadata, now, s_pc, s_current_time, s_tasks_to_queue, s_iter, s_task,
                   added, cancelled, promoted, returned, lifevars, orchvars>>

\* lines 115, 130: if task_id in self.active_tasks
FinishCheck(c) ==
    /\ Idle(c)
    /\ \E task_id \in 1..MaxTasks, op \in {"complete", "fail"} :
         IF task_id \in DOMAIN active_tasks
         THEN Goto(c, IF op = "complete" THEN "complete_pop" ELSE "fail_pop", Some(task_id))
         ELSE DoneWith(c, ReturnNone, Some(task_id))
    /\ UNCHANGED <<task_queue, scheduled_tasks, active_tasks, completed_tasks, failed_tasks,
                   metadata, now, s_pc, s_current_time, s_tasks_to_queue, s_iter, s_task,
                   added, cancelled, promoted, returned, lifevars, orchvars>>

\* lines 116, 131: task = self.active_tasks.pop(task_id)
FinishPop(c) ==
    /\ c_pc[c] \in {"complete_pop", "fail_pop"}
    /\ IF c_arg[c][1] \in DOMAIN active_tasks
       THEN /\ active_tasks' = DictDel(active_tasks, c_arg[c][1])
            /\ Goto(c, IF c_pc[c] = "complete_pop" THEN "complete_store" ELSE "fail_store",
                    Some(active_tasks[c_arg[c][1]]))
       ELSE /\ Done(c, Raise("KeyError"))
            /\ UNCHANGED active_tasks
    /\ UNCHANGED <<task_queue, scheduled_tasks, completed_tasks, failed_tasks, metadata, now,
                   s_pc, s_current_time, s_tasks_to_queue, s_iter, s_task,
                   added, cancelled, promoted, returned, lifevars, orchvars>>

\* lines 117-119: metadata['result'], metadata['completed_at'], completed_tasks[task_id] = task
CompleteStore(c) ==
    /\ c_pc[c] = "complete_store"
    /\ metadata' = [metadata EXCEPT ![c_arg[c][1].id] =
                      DictPut(DictPut(@, "result", "result"), "completed_at", "isoformat")]
    /\ completed_tasks' = DictPut(completed_tasks, c_arg[c][1].id, c_arg[c][1])
    /\ Done(c, ReturnNone)
    /\ UNCHANGED <<task_queue, scheduled_tasks, active_tasks, failed_tasks, now,
                   s_pc, s_current_time, s_tasks_to_queue, s_iter, s_task,
                   added, cancelled, promoted, returned, lifevars, orchvars>>

\* lines 132-134: metadata['error'], metadata['failed_at'], failed_tasks[task_id] = task
FailStore(c) ==
    /\ c_pc[c] = "fail_store"
    /\ metadata' = [metadata EXCEPT ![c_arg[c][1].id] =
                      DictPut(DictPut(@, "error", "error"), "failed_at", "isoformat")]
    /\ failed_tasks' = DictPut(failed_tasks, c_arg[c][1].id, c_arg[c][1])
    /\ Done(c, ReturnNone)
    /\ UNCHANGED <<task_queue, scheduled_tasks, active_tasks, completed_tasks, now,
                   s_pc, s_current_time, s_tasks_to_queue, s_iter, s_task,
                   added, cancelled, promoted, returned, lifevars, orchvars>>

\* the caller has the operation's result (or its exception) and is free again
Return(c) ==
    /\ c_pc[c] = "done"
    /\ c_pc' = [c_pc EXCEPT ![c] = "idle"]
    /\ c_arg' = [c_arg EXCEPT ![c] = None]
    /\ c_ret' = [c_ret EXCEPT ![c] = None]
    /\ UNCHANGED <<task_queue, scheduled_tasks, active_tasks, completed_tasks, failed_tasks,
                   metadata, now, s_pc, s_current_time, s_tasks_to_queue, s_iter, s_task,
                   added, cancelled, promoted, returned, lifevars, orchvars>>

\* ---------------------------------------------------------------- TaskManager._scheduler_loop
callervars == <<c_pc, c_arg, c_ret>>

\* a faulty loop head, "while True": the thread never looks at the flag
SchedStartUnconditional ==
    /\ s_pc = "start"
    /\ s_current_time' = now
    /\ s_tasks_to_queue' = <<>>
    /\ s_iter' = [pos |-> 0, used |-> Len(scheduled_tasks)]
    /\ s_pc' = "scan"
    /\ UNCHANGED <<task_queue, scheduled_tasks, active_tasks, completed_tasks, failed_tasks,
                   metadata, now, s_task, callervars, added, cancelled, promoted, returned,
                   lifevars, orchvars>>

\* line 210: while self.scheduler_running - the thread ends when the flag is
\* cleared; lines 213-217: current_time = datetime.now(); tasks_to_queue = [];
\* the iterator over self.scheduled_tasks.items() remembers the dictionary's size
SchedStart ==
    /\ s_pc = "start"
    /\ IF scheduler_running
       THEN /\ s_current_time' = now
            /\ s_tasks_to_queue' = <<>>
            /\ s_iter' = [pos |-> 0, used |-> Len(scheduled_tasks)]
            /\ s_pc' = "scan"
       ELSE /\ s_pc' = "exit"
            /\ UNCHANGED <<s_current_time, s_tasks_to_queue, s_iter>>
    /\ UNCHANGED <<task_queue, scheduled_tasks, active_tasks, completed_tasks, failed_tasks,
                   metadata, now, s_task, callervars, added, cancelled, promoted, returned, lifevars, orchvars>>

\* line 219: current_time >= scheduled_time
is_due(current_time, task) == current_time >= task.scheduled_at[1]

\* lines 217-220: one step of the for loop. The iterator raises RuntimeError
\* ("dictionary changed size during iteration") when the size differs from the
\* one it remembers; the except clause of line 232 catches it. So does the
\* ValueError of line 218.
SchedScan ==
    /\ s_pc = "scan"
    /\ IF s_iter.used # Len(scheduled_tasks)
       THEN /\ s_pc' = "error"
            /\ s_iter' = [pos |-> 0, used |-> 0]
            /\ s_tasks_to_queue' = <<>>
            /\ s_current_time' = 0
       ELSE IF s_iter.pos >= Len(scheduled_tasks)
       THEN /\ s_pc' = "move"
            /\ s_iter' = [pos |-> 0, used |-> 0]
            /\ s_current_time' = 0
            /\ UNCHANGED s_tasks_to_queue
       ELSE LET task == scheduled_tasks[s_iter.pos + 1]
            IN  IF ~fromisoformat_ok(task.scheduled_at[1])
                THEN /\ s_pc' = "error"
                     /\ s_iter' = [pos |-> 0, used |-> 0]
                     /\ s_tasks_to_queue' = <<>>
                     /\ s_current_time' = 0
                ELSE /\ s_tasks_to_queue' = IF is_due(s_current_time, task)
                                            THEN Append(s_tasks_to_queue, task.id)
                                            ELSE s_tasks_to_queue
                     /\ s_iter' = [s_iter EXCEPT !.pos = @ + 1]
                     /\ UNCHANGED <<s_pc, s_current_time>>
    /\ UNCHANGED <<task_queue, scheduled_tasks, active_tasks, completed_tasks, failed_tasks,
                   metadata, now, s_task, callervars,
                   added, cancelled, promoted, returned, lifevars, orchvars>>

\* a faulty move that reads the task with scheduled_tasks[task_id] and leaves
\* it in the dictionary
scheduled_peek(task_id) ==
    LET k == IndexOf(scheduled_tasks, task_id)
    IN  /\ UNCHANGED scheduled_tasks
        /\ s_task' = Some([scheduled_tasks[k] EXCEPT !.scheduled_at = None])

\* lines 224-225: task = self.scheduled_tasks.pop(task_id); task.scheduled_at = None
scheduled_pop(task_id) ==
    LET k == IndexOf(scheduled_tasks, task_id)
    IN  /\ scheduled_tasks' = RemoveAt(scheduled_tasks, k)
        /\ s_task' = Some([scheduled_tasks[k] EXCEPT !.scheduled_at = None])

\* line 223: for task_id in tasks_to_queue, and lines 224-225; pop raises KeyError
\* when the id is no longer scheduled (line 232 catches it); after the loop the
\* thread waits (line 230)
SchedPop ==
    /\ s_pc = "move"
    /\ IF s_tasks_to_queue = <<>>
       THEN /\ s_pc' = "wait"
            /\ UNCHANGED <<scheduled_tasks, s_task, s_tasks_to_queue>>
       ELSE IF Head(s_tasks_to_queue) \in Keys(scheduled_tasks)
       THEN /\ scheduled_pop(Head(s_tasks_to_queue))
            /\ s_pc' = "put"
            /\ UNCHANGED s_tasks_to_queue
       ELSE /\ s_pc' = "error"
            /\ s_tasks_to_queue' = <<>>
            /\ UNCHANGED <<scheduled_tasks, s_task>>
    /\ UNCHANGED <<task_queue, active_tasks, completed_tasks, failed_tasks, metadata, now,
                   s_current_time, s_iter, callervars, added, cancelled, promoted, returned, lifevars, orchvars>>

\* line 226: self.task_queue.put(task)
SchedPut ==
    /\ s_pc = "put"
    /\ task_queue' = heappush(task_queue, s_task[1])
    /\ promoted' = promoted \cup {s_task[1].id}
    /\ s_task' = None
    /\ s_tasks_to_queue' = Tail(s_tasks_to_queue)
    /\ s_pc' = "move"
    /\ UNCHANGED <<scheduled_tasks, active_tasks, completed_tasks, failed_tasks, metadata, now,
                   s_current_time, s_iter, callervars, added, cancelled, returned, lifevars, orchvars>>

\* a faulty loop without the try/except of lines 211 and 232: an error ends
\* the thread
SchedWakeEndsOnError ==
    /\ s_pc \in {"wait", "error"}
    /\ s_pc' = IF s_pc = "error" THEN "exit" ELSE "start"
    /\ UNCHANGED <<task_queue, scheduled_tasks, active_tasks, completed_tasks, failed_tasks,
                   metadata, now, s_current_time, s_tasks_to_queue, s_iter, s_task,
                   callervars, added, cancelled, promoted, returned, lifevars, orchvars>>

\* line 230: threading.Event().wait(10) is over;  line 234: wait(60) after an error
SchedWake ==
    /\ s_pc \in {"wait", "error"}
    /\ s_pc' = "start"
    /\ UNCHANGED <<task_queue, scheduled_tasks, active_tasks, completed_tasks, failed_tasks,
                   metadata, now, s_current_time, s_tasks_to_queue, s_iter, s_task,
                   callervars, added, cancelled, promoted, returned, lifevars, orchvars>>

\* time passes
Tick ==
    /\ now < MaxTime
    /\ now' = now + 1
    /\ UNCHANGED <<task_queue, scheduled_tasks, active_tasks, completed_tasks, failed_tasks,
                   metadata, s_pc, s_current_time, s_tasks_to_queue, s_iter, s_task,
                   callervars, added, cancelled, promoted, returned, lifevars, orchvars>>

\* ---------------------------------------------------------------- TaskManager.shutdown
\* line 240: self.scheduler_running = False
ShutdownFlag(c) ==
    /\ Idle(c)
    /\ scheduler_running' = FALSE
    /\ Goto(c, "join", None)
    /\ UNCHANGED <<task_queue, scheduled_tasks, active_tasks, completed_tasks, failed_tasks,
                   metadata, now, s_pc, s_current_time, s_tasks_to_queue, s_iter, s_task,
                   added, cancelled, promoted, returned, shutdown_returned, orchvars>>

\* lines 241-243: if the thread is alive, join(timeout=5), then return. The
\* join ends when the thread has ended or when the timeout has passed,
\* whichever is first; the thread's wait of line 230 or 234 is longer than the
\* timeout, and nothing bounds the time its statements take, so the call can
\* return at any position of the scheduler thread.
ShutdownJoin(c) ==
    /\ c_pc[c] = "join"
    /\ shutdown_returned' = TRUE
    /\ Done(c, ReturnNone)
    /\ UNCHANGED <<task_queue, scheduled_tasks, active_tasks, completed_tasks, failed_tasks,
                   metadata, now, s_pc, s_current_time, s_tasks_to_queue, s_iter, s_task,
                   added, cancelled, promoted, returned, scheduler_running, orchvars>>

\* ---------------------------------------------------------------- specification
Next ==
    \/ \E c \in Callers : AddTask(c)
    \/ \E c \in Callers : NextCheck(c)
    \/ \E c \in Callers : NextGet(c)
    \/ \E c \in Callers : NextActivate(c)
    \/ \E c \in Callers : CancelCheck(c)
    \/ \E c \in Callers : CancelDel(c)
    \/ \E c \in Callers : FinishCheck(c)
    \/ \E c \in Callers : FinishPop(c)
    \/ \E c \in Callers : CompleteStore(c)
    \/ \E c \in Callers : FailStore(c)
    \/ \E c \in Callers : Return(c)
    \/ SchedStart
    \/ SchedScan
    \/ SchedPop
    \/ SchedPut
    \/ SchedWake
    \/ Tick

Spec == Init /\ [][Next]_vars

\* The ready queue alone: tasks without a due time are added and taken; the
\* scheduler thread has nothing to promote.
NextQueue ==
    \/ \E c \in Callers : AddReadyTask(c)
    \/ \E c \in Callers : NextCheck(c)
    \/ \E c \in Callers : NextGet(c)
    \/ \E c \in Callers : NextActivate(c)
    \/ \E c \in Callers : Return(c)

SpecQueue == Init /\ [][NextQueue]_vars

\* The ready queue used by several threads at once: each of them adds tasks
\* and calls get_next_task, and their statements interleave.
NextCallers == {1, 2}
InitConcurrent == InitWith(NextCallers)

NextConcurrent ==
    \/ \E c \in NextCallers : AddReadyTask(c)
    \/ \E c \in NextCallers : NextCheck(c)
    \/ \E c \in NextCallers : NextGet(c)
    \/ \E c \in NextCallers : NextActivate(c)
    \/ \E c \in NextCallers : Return(c)

SpecConcurrent == InitConcurrent /\ [][NextConcurrent]_vars

\* The scheduled bucket, its scheduler thread and shutdown(): a caller adds
\* tasks (with or without a due time) and shuts the TaskManager down. The
\* scheduler thread keeps running while it has a statement to execute, and a
\* caller inside shutdown() finishes it.
SchedulerStep ==
    \/ SchedStart
    \/ SchedScan
    \/ SchedPop
    \/ SchedPut
    \/ SchedWake

NextShutdown ==
    \/ \E c \in Callers : AddTask(c)
    \/ \E c \in Callers : ShutdownFlag(c)
    \/ \E c \in Callers : ShutdownJoin(c)
    \/ \E c \in Callers : Return(c)
    \/ SchedulerStep
    \/ Tick

SpecShutdown ==
    /\ Init
    /\ [][NextShutdown]_vars
    /\ WF_vars(SchedulerStep)
    /\ WF_vars(\E c \in Callers : ShutdownJoin(c))

\* The scheduled bucket with due times of any kind: a caller adds tasks, some
\* with a 'scheduled_at' that is not a date, and cancels scheduled tasks; the
\* scheduler thread keeps running.
NextPromotion ==
    \/ \E c \in Callers : AddTask(c)
    \/ \E c \in Callers : AddMalformedTask(c)
    \/ \E c \in Callers : CancelCheck(c)
    \/ \E c \in Callers : CancelDel(c)
    \/ \E c \in Callers : Return(c)
    \/ SchedulerStep
    \/ Tick

SpecPromotion == Init /\ [][NextPromotion]_vars /\ WF_vars(SchedulerStep)

\* ================================================================ OrchestrationLayer
\* TaskStatus (orchestration.py lines 13-19)
CREATED == "created"
PLANNING == "planning"
IN_PROGRESS == "in_progress"
COMPLETED == "completed"
FAILED == "failed"
CANCELLED == "cancelled"

\* TaskType (lines 21-27): the values TaskType(value) accepts
TaskType ==
    {"website_creation", "app_development", "data_analysis", "deployment", "planning", "general"}

\* the phase handler execute_task dispatches a valid type to (lines 114-121)
handler(task_type) ==
    CASE task_type \in {"website_creation", "app_development"} -> "development"
      [] task_type = "data_analysis" -> "analysis"
      [] task_type = "deployment" -> "deployment"
      [] OTHER -> "general"

\* create_task arguments tried: the type and the metadata dict
TaskInputs ==
    << [task_type |-> "website_creation", metadata |-> EmptyDict],
       [task_type |-> "website_creation", metadata |-> [deploy |-> TRUE]],
       [task_type |-> "data_analysis", metadata |-> EmptyDict],
       [task_type |-> "deployment", metadata |-> EmptyDict],
       [task_type |-> "deployment", metadata |-> [project_path |-> ""]],
       [task_type |-> "deployment", metadata |-> [project_path |-> "path"]],
       [task_type |-> "general", metadata |-> EmptyDict],
       [task_type |-> "custom", metadata |-> EmptyDict] >>
CreatePriorities == {"medium", "high"}

\* what a collaborator returns: a dict, of which the model keeps which call
\* made it and the 'deployment' entry the development handler adds
Result(kind) == [kind |-> kind, deployment |-> None]
ReturnResult(result) == <<"result", result>>

\* str(e) of the exceptions execute_task can catch
NotFound == "Task not found"
InvalidTaskType == "not a valid TaskType"
MissingProjectPath == "Project path required for deployment task"
Failure(collaborator) == collaborator \o " failed"

\* task_data of create_task (lines 63-76); description and the two timestamps
\* are left out, the metadata dict is the shared object metadata[id]
task_data(task_type, priority) ==
    [type |-> task_type, priority |-> priority, status |-> CREATED, logs |-> <<>>,
     progress |-> 0, result |-> None, error |-> None, plan |-> None]

\* a faulty create_task that stores the record but never hands it to the
\* TaskManager: the registry has the task, the ready queue does not
create_task_unqueued(task_type, priority, meta) ==
    LET task_id == added + 1
    IN  /\ tasks' = DictPut(tasks, task_id, task_data(task_type, priority))
        /\ metadata' = DictPut(metadata, task_id, meta)
        /\ added' = added + 1
        /\ UNCHANGED <<task_queue, scheduled_tasks, active_tasks, completed_tasks, failed_tasks,
                       now, s_pc, s_current_time, s_tasks_to_queue, s_iter, s_task, callervars,
                       cancelled, promoted, returned, lifevars, o_pc, o_task_id, o_result, o_e,
                       o_ret, calls, o_before, o_commit>>

\* create_task: the record goes into the registry, then the same dict is
\* handed to TaskManager.add_task, which queues a Task for it
create_task(task_type, priority, meta) ==
    LET task_id == added + 1
    IN  /\ tasks' = DictPut(tasks, task_id, task_data(task_type, priority))
        /\ metadata' = DictPut(metadata, task_id, meta)
        /\ add_task_effect(task_id, priority, None)
        /\ UNCHANGED <<active_tasks, completed_tasks, failed_tasks, now, s_pc, s_current_time,
                       s_tasks_to_queue, s_iter, s_task, callervars, cancelled, promoted,
                       returned, lifevars,
                       o_pc, o_task_id, o_result, o_e, o_ret, calls, o_before, o_commit>>

CreateTask ==
    /\ added < MaxCreated
    /\ \E i \in 1..Len(TaskInputs), priority \in CreatePriorities :
         create_task(TaskInputs[i].task_type, priority, TaskInputs[i].metadata)

\* _update_task_status, _update_task_progress, _log_task (lines 214-231)
_update_task_status(task_id, status) ==
    IF task_id \in DOMAIN tasks
    THEN tasks' = [tasks EXCEPT ![task_id].status = status]
    ELSE UNCHANGED tasks

_update_task_progress(task_id, progress) ==
    IF task_id \in DOMAIN tasks
    THEN tasks' = [tasks EXCEPT ![task_id].progress = progress]
    ELSE UNCHANGED tasks

_log_task(task_id, message) ==
    IF task_id \in DOMAIN tasks
    THEN tasks' = [tasks EXCEPT ![task_id].logs = Append(@, message)]
    ELSE UNCHANGED tasks

\* ---- a request thread's position in execute_task
At(t, label) == o_pc[t] = label
OGoto(t, label) == o_pc' = [o_pc EXCEPT ![t] = label]
\* an exception raised inside the try block: control goes to the except clause
ORaise(t, message) ==
    /\ o_pc' = [o_pc EXCEPT ![t] = "except"]
    /\ o_e' = [o_e EXCEPT ![t] = Some(message)]
\* the task the thread works on, and its phase handler
OTask(t) == tasks[o_task_id[t]]
OHandler(t) == handler(OTask(t).type)

\* ---------------------------------------------------------------- execute_task
\* the ids callers pass to execute_task: those create_task can have returned,
\* and one that it never returns
RequestedIds == 1..(MaxCreated + 1)

\* a faulty lookup that registers the unknown id before it raises
ExecuteTaskRegistering(t) ==
    /\ At(t, "idle")
    /\ calls < MaxCalls
    /\ calls' = calls + 1
    /\ \E task_id \in RequestedIds :
         /\ o_task_id' = [o_task_id EXCEPT ![t] = task_id]
         /\ IF task_id \notin DOMAIN tasks
            THEN /\ OGoto(t, "done")
                 /\ o_ret' = [o_ret EXCEPT ![t] = Raise(NotFound)]
                 /\ tasks' = DictPut(tasks, task_id, task_data("general", "medium"))
                 /\ UNCHANGED o_before
            ELSE /\ OGoto(t, "status_planning")
                 /\ o_before' = [o_before EXCEPT ![t] = tasks[task_id].result]
                 /\ UNCHANGED <<o_ret, tasks>>
    /\ UNCHANGED <<tmvars, o_result, o_e, o_commit>>

\* lines 98-101: an unknown id raises ValueError before the try block
ExecuteTask(t) ==
    /\ At(t, "idle")
    /\ calls < MaxCalls
    /\ calls' = calls + 1
    /\ \E task_id \in RequestedIds :
         /\ o_task_id' = [o_task_id EXCEPT ![t] = task_id]
         /\ IF task_id \notin DOMAIN tasks
            THEN /\ OGoto(t, "done")
                 /\ o_ret' = [o_ret EXCEPT ![t] = Raise(NotFound)]
                 /\ UNCHANGED o_before
            ELSE /\ OGoto(t, "status_planning")
                 /\ o_before' = [o_before EXCEPT ![t] = tasks[task_id].result]
                 /\ UNCHANGED o_ret
    /\ UNCHANGED <<tmvars, tasks, o_result, o_e, o_commit>>

\* line 104: self._update_task_status(task_id, TaskStatus.PLANNING)
StatusPlanning(t) ==
    /\ At(t, "status_planning")
    /\ _update_task_status(o_task_id[t], PLANNING)
    /\ OGoto(t, "log_planning")
    /\ UNCHANGED <<tmvars, o_task_id, o_result, o_e, o_ret, calls, o_before, o_commit>>

\* line 107
LogPlanning(t) ==
    /\ At(t, "log_planning")
    /\ _log_task(o_task_id[t], "Starting planning and analysis phase")
    /\ OGoto(t, "analyze_and_plan")
    /\ UNCHANGED <<tmvars, o_task_id, o_result, o_e, o_ret, calls, o_before, o_commit>>

\* line 108: plan = self.planning_module.analyze_and_plan(task), which may raise
AnalyzeAndPlan(t) ==
    /\ At(t, "analyze_and_plan")
    /\ \E raises \in BOOLEAN :
         IF raises
         THEN ORaise(t, Failure("analyze_and_plan"))
         ELSE OGoto(t, "set_plan") /\ UNCHANGED o_e
    /\ UNCHANGED <<tmvars, tasks, o_task_id, o_result, o_ret, calls, o_before, o_commit>>

\* lines 109-121: task['plan'] = plan, then TaskType(task['type']), which raises
\* ValueError for a type outside the enumeration, and the dispatch
SetPlan(t) ==
    /\ At(t, "set_plan")
    /\ tasks' = [tasks EXCEPT ![o_task_id[t]].plan = Some("plan")]
    /\ IF OTask(t).type \in TaskType
       THEN OGoto(t, "status_in_progress") /\ UNCHANGED o_e
       ELSE ORaise(t, InvalidTaskType)
    /\ UNCHANGED <<tmvars, o_task_id, o_result, o_ret, calls, o_before, o_commit>>

\* first line of each phase handler (lines 143, 164, 176, 191)
StatusInProgress(t) ==
    /\ At(t, "status_in_progress")
    /\ _update_task_status(o_task_id[t], IN_PROGRESS)
    /\ OGoto(t, "log_phase")
    /\ UNCHANGED <<tmvars, o_task_id, o_result, o_e, o_ret, calls, o_before, o_commit>>

\* second line of each phase handler (lines 144, 165, 177, 192)
phase_message(h) ==
    CASE h = "development" -> "Starting development phase"
      [] h = "analysis" -> "Starting analysis phase"
      [] h = "deployment" -> "Starting deployment phase"
      [] OTHER -> "Processing general task"

LogPhase(t) ==
    /\ At(t, "log_phase")
    /\ _log_task(o_task_id[t], phase_message(OHandler(t)))
    /\ OGoto(t, "phase")
    /\ UNCHANGED <<tmvars, o_task_id, o_result, o_e, o_ret, calls, o_before, o_commit>>

\* a collaborator call of a phase handler: it returns a result or raises
collaborator_call(t, name, result, label) ==
    /\ \E raises \in BOOLEAN :
         IF raises
         THEN ORaise(t, Failure(name)) /\ UNCHANGED o_result
         ELSE /\ OGoto(t, label)
              /\ o_result' = [o_result EXCEPT ![t] = Some(result)]
              /\ UNCHANGED o_e
    /\ UNCHANGED <<tmvars, tasks, o_task_id, o_ret, calls, o_before, o_commit>>

\* line 147: dev_result = self.dev_module.create_project(task)
CreateProject(t) ==
    /\ At(t, "phase")
    /\ OHandler(t) = "development"
    /\ collaborator_call(t, "create_project", Result("project"), "progress_80")

\* line 168: analysis_result = self.planning_module.perform_analysis(task)
PerformAnalysis(t) ==
    /\ At(t, "phase")
    /\ OHandler(t) = "analysis"
    /\ collaborator_call(t, "perform_analysis", Result("analysis"), "progress_100")

\* line 195: result = self.planning_module.execute_general_task(task)
ExecuteGeneralTask(t) ==
    /\ At(t, "phase")
    /\ OHandler(t) = "general"
    /\ collaborator_call(t, "execute_general_task", Result("response"), "progress_100")

\* dict.get with a default
get(d, key, default) == IF key \in DOMAIN d THEN d[key] ELSE default

\* a faulty deployment handler that does not look at the project path
CheckProjectPathSkipped(t) ==
    /\ At(t, "phase")
    /\ OHandler(t) = "deployment"
    /\ OGoto(t, "deploy_project")
    /\ UNCHANGED <<tmvars, tasks, o_task_id, o_result, o_e, o_ret, calls, o_before, o_commit>>

\* lines 179-181: the deployment handler needs metadata['project_path']
CheckProjectPath(t) ==
    /\ At(t, "phase")
    /\ OHandler(t) = "deployment"
    /\ IF get(metadata[o_task_id[t]], "project_path", "") = ""
       THEN ORaise(t, MissingProjectPath)
       ELSE OGoto(t, "deploy_project") /\ UNCHANGED o_e
    /\ UNCHANGED <<tmvars, tasks, o_task_id, o_result, o_ret, calls, o_before, o_commit>>

\* lines 150-153: progress 80, then the development handler looks at metadata['deploy']
Progress80(t) ==
    /\ At(t, "progress_80")
    /\ _update_task_progress(o_task_id[t], 80)
    /\ IF get(metadata[o_task_id[t]], "deploy", FALSE)
       THEN OGoto(t, "log_deploy")
       ELSE OGoto(t, "progress_100")
    /\ UNCHANGED <<tmvars, o_task_id, o_result, o_e, o_ret, calls, o_before, o_commit>>

\* line 154
LogDeploy(t) ==
    /\ At(t, "log_deploy")
    /\ _log_task(o_task_id[t], "Deploying project")
    /\ OGoto(t, "deploy_project")
    /\ UNCHANGED <<tmvars, o_task_id, o_result, o_e, o_ret, calls, o_before, o_commit>>

\* lines 155-156 (dev_result['deployment'] = deploy_result) and line 183
DeployProject(t) ==
    /\ At(t, "deploy_project")
    /\ collaborator_call(t, "deploy_project",
                         IF OHandler(t) = "development"
                         THEN [o_result[t][1] EXCEPT !.deployment = Some("deployment")]
                         ELSE Result("deployment"),
                         "progress_100")

\* last statement of each phase handler (lines 158, 170, 185, 197)
Progress100(t) ==
    /\ At(t, "progress_100")
    /\ _update_task_progress(o_task_id[t], 100)
    /\ OGoto(t, "log_commit")
    /\ UNCHANGED <<tmvars, o_task_id, o_result, o_e, o_ret, calls, o_before, o_commit>>

\* a faulty execute_task that logs the commit but never calls it
LogCommitSkipsCommit(t) ==
    /\ At(t, "log_commit")
    /\ _log_task(o_task_id[t], "Committing changes to version control")
    /\ OGoto(t, "status_completed")
    /\ UNCHANGED <<tmvars, o_task_id, o_result, o_e, o_ret, calls, o_before, o_commit>>

\* line 124
LogCommit(t) ==
    /\ At(t, "log_commit")
    /\ _log_task(o_task_id[t], "Committing changes to version control")
    /\ OGoto(t, "commit")
    /\ UNCHANGED <<tmvars, o_task_id, o_result, o_e, o_ret, calls, o_before, o_commit>>

\* line 125: self.version_control.commit_task_changes(task_id, task).  The
\* collaborator catches its own exceptions and reports them in the returned
\* dict (version_control.py lines 61-113); execute_task drops that dict.
CommitOutcomes == {"success", "failed"}

CommitTaskChanges(t) ==
    /\ At(t, "commit")
    /\ \E outcome \in CommitOutcomes :
         /\ o_commit' = [o_commit EXCEPT ![t] = Some(outcome)]
         /\ OGoto(t, "status_completed")
    /\ UNCHANGED <<tmvars, tasks, o_task_id, o_result, o_e, o_ret, calls, o_before>>

\* line 127: self._update_task_status(task_id, TaskStatus.COMPLETED)
StatusCompleted(t) ==
    /\ At(t, "status_completed")
    /\ _update_task_status(o_task_id[t], COMPLETED)
    /\ OGoto(t, "set_result")
    /\ UNCHANGED <<tmvars, o_task_id, o_result, o_e, o_ret, calls, o_before, o_commit>>

\* a faulty execute_task that takes the finished task out of the ready queue
SetResultDequeues(t) ==
    /\ At(t, "set_result")
    /\ tasks' = [tasks EXCEPT ![o_task_id[t]].result = o_result[t]]
    /\ o_ret' = [o_ret EXCEPT ![t] = ReturnResult(o_result[t][1])]
    /\ OGoto(t, "done")
    /\ task_queue' = SelectSeq(task_queue, LAMBDA task : task.id # o_task_id[t])
    /\ UNCHANGED <<scheduled_tasks, active_tasks, completed_tasks, failed_tasks, metadata, now,
                   s_pc, s_current_time, s_tasks_to_queue, s_iter, s_task, callervars, added,
                   cancelled, promoted, returned, lifevars,
                   o_task_id, o_result, o_e, calls, o_before, o_commit>>

\* lines 128-132: task['result'] = result; return result
SetResult(t) ==
    /\ At(t, "set_result")
    /\ tasks' = [tasks EXCEPT ![o_task_id[t]].result = o_result[t]]
    /\ o_ret' = [o_ret EXCEPT ![t] = ReturnResult(o_result[t][1])]
    /\ OGoto(t, "done")
    /\ UNCHANGED <<tmvars, o_task_id, o_result, o_e, calls, o_before, o_commit>>

\* a faulty except clause that puts the task back to Created
except_status_reset(task_id) == _update_task_status(task_id, CREATED)

\* line 135: self._update_task_status(task_id, TaskStatus.FAILED)
except_status(task_id) == _update_task_status(task_id, FAILED)

ExceptStatus(t) ==
    /\ At(t, "except")
    /\ except_status(o_task_id[t])
    /\ OGoto(t, "set_error")
    /\ UNCHANGED <<tmvars, o_task_id, o_result, o_e, o_ret, calls, o_before, o_commit>>

\* a faulty except clause that also drops the result of an earlier execution
SetErrorDropsResult(t) ==
    /\ At(t, "set_error")
    /\ tasks' = [tasks EXCEPT ![o_task_id[t]].error = o_e[t], ![o_task_id[t]].result = None]
    /\ OGoto(t, "log_failed")
    /\ UNCHANGED <<tmvars, o_task_id, o_result, o_e, o_ret, calls, o_before, o_commit>>

\* line 136: task['error'] = str(e)
SetError(t) ==
    /\ At(t, "set_error")
    /\ tasks' = [tasks EXCEPT ![o_task_id[t]].error = o_e[t]]
    /\ OGoto(t, "log_failed")
    /\ UNCHANGED <<tmvars, o_task_id, o_result, o_e, o_ret, calls, o_before, o_commit>>

\* lines 137-139: the failure is logged and the exception raised again
LogFailed(t) ==
    /\ At(t, "log_failed")
    /\ _log_task(o_task_id[t], "Task failed: " \o o_e[t][1])
    /\ o_ret' = [o_ret EXCEPT ![t] = Raise(o_e[t][1])]
    /\ OGoto(t, "done")
    /\ UNCHANGED <<tmvars, o_task_id, o_result, o_e, calls, o_before, o_commit>>

\* the caller has the outcome; the thread is free for the next request
ExecuteReturn(t) ==
    /\ At(t, "done")
    /\ o_pc' = [o_pc EXCEPT ![t] = "idle"]
    /\ o_task_id' = [o_task_id EXCEPT ![t] = 0]
    /\ o_result' = [o_result EXCEPT ![t] = None]
    /\ o_e' = [o_e EXCEPT ![t] = None]
    /\ o_ret' = [o_ret EXCEPT ![t] = None]
    /\ o_before' = [o_before EXCEPT ![t] = None]
    /\ o_commit' = [o_commit EXCEPT ![t] = None]
    /\ UNCHANGED <<tmvars, tasks, calls>>

\* the steps of execute_task after its first
ExecuteStep(t) ==
    \/ StatusPlanning(t)
    \/ LogPlanning(t)
    \/ AnalyzeAndPlan(t)
    \/ SetPlan(t)
    \/ StatusInProgress(t)
    \/ LogPhase(t)
    \/ CreateProject(t)
    \/ PerformAnalysis(t)
    \/ ExecuteGeneralTask(t)
    \/ CheckProjectPath(t)
    \/ Progress80(t)
    \/ LogDeploy(t)
    \/ DeployProject(t)
    \/ Progress100(t)
    \/ LogCommit(t)
    \/ CommitTaskChanges(t)
    \/ StatusCompleted(t)
    \/ SetResult(t)
    \/ ExceptStatus(t)
    \/ SetError(t)
    \/ LogFailed(t)
    \/ ExecuteReturn(t)

\* request threads call create_task and execute_task as they please
NextOrch ==
    \/ CreateTask
    \/ \E t \in Threads : ExecuteTask(t)
    \/ \E t \in Threads : ExecuteStep(t)

SpecOrch == Init /\ [][NextOrch]_vars

\* the same, with execute_task calls that follow one another: a call begins
\* only when no other call is in progress
NextOrchSeq ==
    \/ CreateTask
    \/ \E t \in Threads : (\A u \in Threads : At(u, "idle")) /\ ExecuteTask(t)
    \/ \E t \in Threads : ExecuteStep(t)

SpecOrchSeq == Init /\ [][NextOrchSeq]_vars

\* The orchestrator next to a thread that calls TaskManager.cancel_task, the
\* only cancellation the two classes have, and add_task with a due time. Every
\* thread keeps running: a step that stays possible is eventually taken.
NextCancel ==
    \/ CreateTask
    \/ \E c \in Callers : AddTask(c)
    \/ \E c \in Callers : CancelCheck(c)
    \/ \E c \in Callers : CancelDel(c)
    \/ \E c \in Callers : Return(c)
    \/ \E t \in Threads : (\A u \in Threads : At(u, "idle")) /\ ExecuteTask(t)
    \/ \E t \in Threads : ExecuteStep(t)

SpecCancel == Init /\ [][NextCancel]_vars /\ WF_vars(NextCancel)

\* Tasks made by create_task taken through the TaskManager: a worker thread
\* calls get_next_task and then complete_task or fail_task on registry tasks.
NextWorker ==
    \/ CreateTask
    \/ \E c \in Callers : NextCheck(c)
    \/ \E c \in Callers : NextGet(c)
    \/ \E c \in Callers : NextActivate(c)
    \/ \E c \in Callers : FinishCheck(c)
    \/ \E c \in Callers : FinishPop(c)
    \/ \E c \in Callers : CompleteStore(c)
    \/ \E c \in Callers : FailStore(c)
    \/ \E c \in Callers : Return(c)

SpecWorker == Init /\ [][NextWorker]_vars

\* ================================================================ claims

\* a caller's get_next_task takes a task from the ready queue in this step
Takes(c) == c_pc[c] = "get" /\ c_pc'[c] = "activate"
InQueue(queue) == {queue[k] : k \in 1..Len(queue)}

\* C1: when next() takes a task t from the ready queue, no task of strictly
\* higher priority (smaller priority number) is left in the ready queue: high
\* tasks are returned before medium ones, medium before low ones.
C1_PriorityOrder ==
    [][\A c \in Callers : Takes(c) =>
          \A other \in InQueue(task_queue') : c_arg'[c][1].priority <= other.priority]_vars

\* C1 witness: a high-priority task is taken while two tasks of lower priority,
\* both added before it, stay in the ready queue.
C1_Witness ==
    \E c \in Callers :
      /\ c_pc[c] = "activate"
      /\ c_arg[c][1].priority = HIGH
      /\ \E a, b \in InQueue(task_queue) :
           /\ a.id < b.id /\ b.id < c_arg[c][1].id
           /\ a.priority = LOW /\ b.priority = MEDIUM

\* C2: among tasks of equal priority added without a due time, next() returns
\* them in the order they were added: a task is never taken while a task of the
\* same priority that was added before it is still in the ready queue.
C2_FifoWithinPriority ==
    [][\A c \in Callers : Takes(c) =>
          \A other \in InQueue(task_queue') :
             other.priority = c_arg'[c][1].priority => c_arg'[c][1].id < other.id]_vars

\* ---------------------------------------------------------------- C8, C9, C10
Values(d) == {d[k] : k \in DOMAIN d}
\* the Task a caller thread holds between two statements
Held(c) == IF c_pc[c] \in {"activate", "complete_store", "fail_store"} THEN {c_arg[c][1]} ELSE {}
\* every Task that has left the scheduled bucket's side of the store
ReadySide ==
    InQueue(task_queue) \cup Values(active_tasks) \cup Values(completed_tasks)
      \cup Values(failed_tasks) \cup UNION {Held(c) : c \in Callers}
Ids(set) == {task.id : task \in set}
\* the scheduler loop takes a due task out of the scheduled bucket in this step
Promotes == s_pc = "move" /\ s_pc' = "put"

C8_State ==
    \* a task that still has its due time is in the scheduled bucket only, and
    \* next() has not returned it
    /\ \A task \in ReadySide : task.scheduled_at = None
    /\ \A id \in Keys(scheduled_tasks) : id \notin returned /\ id \notin Ids(ReadySide)
    \* a promoted task has left the scheduled bucket, and it is in the ready
    \* queue until the one next() that returns it
    /\ \A id \in promoted :
         /\ id \notin Keys(scheduled_tasks)
         /\ (id \in Ids(InQueue(task_queue))) # (id \in returned)
    /\ \A i, j \in 1..Len(task_queue) : task_queue[i].id = task_queue[j].id => i = j
    \* no task is lost: until next() returns it, a task that was added is
    \* scheduled, cancelled, in the hand of the scheduler loop (between its pop
    \* and its put) or in the ready queue
    /\ \A id \in 1..added :
         \/ id \in Keys(scheduled_tasks)
         \/ id \in cancelled
         \/ s_task # None /\ s_task[1].id = id
         \/ id \in Ids(InQueue(task_queue))
         \/ id \in returned

\* C8: a task added with a due time is not returned by next() before the
\* scheduler loop has promoted it; it is promoted only once its due time has
\* elapsed, by being moved (taken out of the scheduled bucket, scheduled_at
\* cleared) into the ready queue; next() returns it once and never twice:
\* from its promotion on it waits in the ready queue, without a duplicate,
\* until the one next() call that takes it, and it is never lost on the way.
C8_ScheduledPromotedOnce ==
    [][/\ C8_State'
       /\ Promotes =>
            /\ Head(s_tasks_to_queue) \in Keys(scheduled_tasks)
            /\ scheduled_tasks[IndexOf(scheduled_tasks, Head(s_tasks_to_queue))].scheduled_at[1] <= now
            /\ s_task'[1].scheduled_at = None
            /\ Head(s_tasks_to_queue) \notin Keys(scheduled_tasks')
       /\ \A c \in Callers : Takes(c) => c_arg'[c][1].id \notin returned]_vars

\* C8 witness: next() has returned a task that the scheduler loop promoted.
C8_Witness ==
    \E c \in Callers :
      /\ c_pc[c] = "done"
      /\ c_ret[c][1] = "task"
      /\ c_ret[c][2].id \in promoted
      /\ c_ret[c][2].id \in DOMAIN active_tasks

\* C9: once cancel(id) has returned True for a scheduled task, the task is gone
\* for good: it is not scheduled, the scheduler loop does not hold or promote
\* it, it is not in the ready queue, and it is never returned by next() nor
\* active, completed or failed.
C9_CancelledIsGone ==
    \A id \in cancelled :
      /\ id \notin Keys(scheduled_tasks)
      /\ s_task # None => s_task[1].id # id
      /\ id \notin promoted
      /\ id \notin returned
      /\ id \notin Ids(ReadySide)
      /\ id \notin DOMAIN active_tasks \cup DOMAIN completed_tasks \cup DOMAIN failed_tasks

\* C9 witness: the cancelled task is one that the scheduler loop's scan had
\* already found due and is about to move.
C9_Witness ==
    /\ s_pc = "move"
    /\ s_tasks_to_queue # <<>>
    /\ Head(s_tasks_to_queue) \in cancelled

\* C10: cancel(id) returns True if and only if id is in the scheduled bucket when
\* it is called, and otherwise returns False and changes nothing: a call that
\* finds the id scheduled (line 162) ends by returning True, and a call that
\* does not find it returns False and leaves every bucket as it was.
C10_CancelTrueIffScheduled ==
    [][\A c \in Callers :
         /\ (c_pc[c] = "cancel_del" /\ c_pc'[c] = "done") => c_ret'[c] = ReturnBool(TRUE)
         /\ (c_pc'[c] = "done" /\ c_pc[c] # "done" /\ c_ret'[c] = ReturnBool(TRUE)) =>
              /\ c_arg'[c][1] \in Keys(scheduled_tasks)
              /\ c_arg'[c][1] \notin Keys(scheduled_tasks')
         /\ (c_pc'[c] = "done" /\ c_pc[c] # "done" /\ c_ret'[c] = ReturnBool(FALSE)) =>
              /\ c_arg'[c][1] \notin Keys(scheduled_tasks)
              /\ UNCHANGED <<task_queue, scheduled_tasks, active_tasks, completed_tasks,
                             failed_tasks, metadata>>]_vars

\* ---------------------------------------------------------------- execute_task
\* the status values in the order of the state machine
\* Created -> Planning -> InProgress -> {Completed | Failed}
Rank(status) ==
    CASE status = CREATED -> 0
      [] status = PLANNING -> 1
      [] status = IN_PROGRESS -> 2
      [] OTHER -> 3
\* the step in which thread t's call writes its first status
Restarts(t, id) ==
    /\ o_pc[t] = "status_planning"
    /\ o_pc'[t] = "log_planning"
    /\ o_task_id[t] = id
\* thread t is inside the try block or the except clause of execute_task
Executing(t) == o_pc[t] \notin {"idle", "done"}
\* thread t's call ends in this step by raising the exception it caught
ExitsFailed(t) == o_pc[t] = "log_failed" /\ o_pc'[t] = "done"

\* C3: over any sequence of create_task and execute_task calls, repeated
\* calls on the same id included, a task's status only moves forward along
\* Created -> Planning -> InProgress -> {Completed | Failed}: no step moves it
\* to an earlier state, and no step changes it once it is Completed or Failed.
C3_StatusOnlyForward ==
    [][\A id \in DOMAIN tasks :
         tasks'[id].status # tasks[id].status =>
           Rank(tasks'[id].status) > Rank(tasks[id].status)]_vars

\* C3, as the code has it for calls on one id that follow one another: a
\* status change is a step Created -> Planning, Planning -> InProgress,
\* InProgress -> Completed, Planning -> Failed or InProgress -> Failed, or it
\* is the first write of a further execute_task call, which takes a Completed
\* or Failed task back to Planning.
C3_ForwardWithinCall ==
    [][\A id \in DOMAIN tasks :
         tasks'[id].status # tasks[id].status =>
           \/ <<tasks[id].status, tasks'[id].status>> \in
                {<<CREATED, PLANNING>>, <<PLANNING, IN_PROGRESS>>, <<IN_PROGRESS, COMPLETED>>,
                 <<PLANNING, FAILED>>, <<IN_PROGRESS, FAILED>>}
           \/ /\ tasks[id].status \in {COMPLETED, FAILED}
              /\ tasks'[id].status = PLANNING
              /\ \E t \in Threads : Restarts(t, id)]_vars

\* C3 witness: a further execute_task call has just put a task whose earlier
\* execution ended Failed back to Planning.
C3_Witness ==
    \E t \in Threads :
      /\ o_pc[t] = "log_planning"
      /\ OTask(t).status = PLANNING
      /\ OTask(t).error # None

\* C4: whenever execute_task returns normally, the task's registry record has
\* status Completed, progress 100, a result that is the value returned to the
\* caller, and no error.
C4_NormalReturnRecord ==
    \A t \in Threads :
      (o_pc[t] = "done" /\ o_ret[t][1] = "result") =>
        /\ OTask(t).status = COMPLETED
        /\ OTask(t).progress = 100
        /\ OTask(t).result = Some(o_ret[t][2])
        /\ OTask(t).error = None

\* C5: when a collaborator raises during execute_task for a known id (calls
\* on one id following one another), then as the call ends the task has
\* status Failed and the error string, its last log entry records the
\* failure, its result field is what it was when the call began, and the
\* caller gets the exception.
C5_FailureExit ==
    [][\A t \in Threads :
         ExitsFailed(t) =>
           LET task == tasks'[o_task_id[t]]
           IN  /\ task.status = FAILED
               /\ task.error = o_e[t]
               /\ task.logs # <<>>
               /\ task.logs[Len(task.logs)] = "Task failed: " \o o_e[t][1]
               /\ task.result = o_before[t]
               /\ o_ret'[t] = Raise(o_e[t][1])]_vars

\* C5 witness: a call has ended with a collaborator's exception on a task
\* that holds the result of an earlier successful execution.
C5_Witness ==
    \E t \in Threads :
      /\ o_pc[t] = "done"
      /\ o_ret[t][1] = "raise"
      /\ o_task_id[t] \in DOMAIN tasks
      /\ OTask(t).status = FAILED
      /\ OTask(t).result # None
      /\ OTask(t).result = o_before[t]

\* C6: in every reachable state, a task whose status is Completed or Failed
\* has at most one of its result and error fields set.
C6_ResultOrError ==
    \A id \in DOMAIN tasks :
      tasks[id].status \in {COMPLETED, FAILED} =>
        ~(tasks[id].result # None /\ tasks[id].error # None)

\* C7: for every task id at most one execute_task call is in progress at any
\* time.
C7_OneExecutionPerId ==
    \A t, u \in Threads :
      (t # u /\ Executing(t) /\ Executing(u)) => o_task_id[t] # o_task_id[u]

\* ---------------------------------------------------------------- complete_task, fail_task
\* the four dictionaries and the ready queue
Buckets == <<task_queue, scheduled_tasks, active_tasks, completed_tasks, failed_tasks>>
\* a caller's complete_task / fail_task finds its id not active and returns
FinishNoop(c) == c_pc[c] = "idle" /\ c_pc'[c] = "done" /\ c_ret'[c] = ReturnNone /\ c_arg'[c] # None
\* a caller's complete_task / fail_task takes its task out of active_tasks
FinishTakes(c) == c_pc[c] \in {"complete_pop", "fail_pop"} /\ c_pc'[c] # c_pc[c]
\* a caller's complete_task / fail_task stores its task and returns
FinishStores(c) == c_pc[c] \in {"complete_store", "fail_store"} /\ c_pc'[c] = "done"

\* C11: complete(id, result) and fail(id, error) change state only when id is
\* active.  Then the task leaves active_tasks and is put into completed_tasks
\* (resp. failed_tasks) with the result (resp. error) and a timestamp in its
\* metadata, and the call returns.  When id is not active the call returns
\* without raising and leaves every bucket and the metadata as they were.
C11_FinishOnlyActive ==
    [][\A c \in Callers :
         /\ FinishNoop(c) =>
              /\ c_arg'[c][1] \notin DOMAIN active_tasks
              /\ UNCHANGED <<Buckets, metadata>>
         /\ FinishTakes(c) =>
              /\ c_arg[c][1] \in DOMAIN active_tasks
              /\ c_pc'[c] = (IF c_pc[c] = "complete_pop" THEN "complete_store" ELSE "fail_store")
              /\ c_arg'[c] = Some(active_tasks[c_arg[c][1]])
              /\ active_tasks' = DictDel(active_tasks, c_arg[c][1])
              /\ UNCHANGED <<task_queue, scheduled_tasks, completed_tasks, failed_tasks>>
         /\ FinishStores(c) =>
              LET task == c_arg[c][1]
                  completes == c_pc[c] = "complete_store"
                  bucket == IF completes THEN completed_tasks ELSE failed_tasks
                  bucket_after == IF completes THEN completed_tasks' ELSE failed_tasks'
                  other == IF completes THEN failed_tasks ELSE completed_tasks
                  other_after == IF completes THEN failed_tasks' ELSE completed_tasks'
              IN  /\ c_ret'[c] = ReturnNone
                  /\ task.id \notin DOMAIN active_tasks'
                  /\ bucket_after = DictPut(bucket, task.id, task)
                  /\ other_after = other
                  /\ DOMAIN metadata'[task.id] =
                       DOMAIN metadata[task.id] \cup
                         (IF completes THEN {"result", "completed_at"} ELSE {"error", "failed_at"})
                  /\ UNCHANGED <<task_queue, scheduled_tasks, active_tasks>>]_vars

\* C11 witness: a task that was active is now in failed_tasks with its error,
\* and a complete_task call on the same id has just returned as a no-op.
C11_Witness ==
    \E c \in Callers :
      /\ c_pc[c] = "done"
      /\ c_ret[c] = ReturnNone
      /\ c_arg[c] # None
      /\ c_arg[c][1] \in DOMAIN failed_tasks
      /\ "error" \in DOMAIN metadata[c_arg[c][1]]

\* ---------------------------------------------------------------- execute_task, unknown id
\* thread t's execute_task call begins in this step
Begins(t) == o_pc[t] = "idle" /\ o_pc'[t] # "idle"

\* C12: execute_task with an id that is not in the registry raises the
\* "not found" ValueError at once: the registry (its ids and every record)
\* and all TaskManager buckets stay as they were, and the call never reaches
\* a collaborator, since only calls on a registered id enter the try block.
C12_UnknownIdNotFound ==
    [][\A t \in Threads :
         /\ (Begins(t) /\ o_task_id'[t] \notin DOMAIN tasks) =>
              /\ o_pc'[t] = "done"
              /\ o_ret'[t] = Raise(NotFound)
              /\ UNCHANGED <<tasks, Buckets, metadata>>
         /\ (Begins(t) /\ o_task_id'[t] \in DOMAIN tasks) => o_pc'[t] = "status_planning"
         /\ Executing(t)' => o_task_id'[t] \in DOMAIN tasks']_vars

\* C12 witness: a call on an unknown id has raised while the registry holds
\* a task.
C12_Witness ==
    \E t \in Threads :
      /\ o_pc[t] = "done"
      /\ o_ret[t] = Raise(NotFound)
      /\ o_task_id[t] \notin DOMAIN tasks
      /\ DOMAIN tasks # {}

\* ---------------------------------------------------------------- deployment without a project path
\* thread t's call is on a deployment task whose metadata has no project
\* path, or an empty one
WithoutProjectPath(t) ==
    /\ o_task_id[t] \in DOMAIN tasks
    /\ OTask(t).type = "deployment"
    /\ get(metadata[o_task_id[t]], "project_path", "") = ""
\* the positions from the deployment collaborator's call to the normal return
FromDeployOn == {"deploy_project", "progress_100", "log_commit", "commit", "status_completed",
                 "set_result"}

\* C13: execute_task on a deployment task without a project path (calls on
\* one id following one another) never calls the deployment or the
\* version-control collaborator and never returns normally: once planning has
\* succeeded the handler raises the "project path required" ValueError, and
\* the call ends with the task Failed, that non-empty error string on the
\* record, a "Task failed" entry last in the log, and the error raised to
\* the caller.
C13_DeploymentNeedsProjectPath ==
    [][\A t \in Threads :
         WithoutProjectPath(t)' =>
           /\ o_pc'[t] \notin FromDeployOn
           /\ o_commit'[t] = None
           /\ (At(t, "phase") /\ ~At(t, "phase")') =>
                /\ o_pc'[t] = "except"
                /\ o_e'[t] = Some(MissingProjectPath)
           /\ ExitsFailed(t) =>
                LET task == tasks'[o_task_id[t]]
                IN  /\ task.status = FAILED
                    /\ task.error = o_e[t]
                    /\ task.error \in {Some(MissingProjectPath), Some(Failure("analyze_and_plan"))}
                    /\ task.logs[Len(task.logs)] = "Task failed: " \o task.error[1]
                    /\ o_ret'[t] = Raise(task.error[1])
           /\ At(t, "done")' => o_ret'[t][1] = "raise"]_vars

\* C13 witness: such a call has ended with the "project path required" error
\* and the task is Failed.
C13_Witness ==
    \E t \in Threads :
      /\ WithoutProjectPath(t)
      /\ o_pc[t] = "done"
      /\ o_ret[t] = Raise(MissingProjectPath)
      /\ OTask(t).status = FAILED
      /\ OTask(t).error = Some(MissingProjectPath)

\* ---------------------------------------------------------------- dispatch by type
\* the collaborator whose result a task of the given type is to end with:
\* the development, analysis and deployment handlers for their types, the
\* general handler for every other type string
DispatchedResult(task_type) ==
    CASE task_type \in {"website_creation", "app_development"} -> "project"
      [] task_type = "data_analysis" -> "analysis"
      [] task_type = "deployment" -> "deployment"
      [] OTHER -> "response"
\* thread t's call leaves the dispatch (lines 109-121) in this step
Dispatches(t) == At(t, "set_plan") /\ ~At(t, "set_plan")'

\* C14: execute_task dispatches by declared type.  Once planning has
\* succeeded, a task of any type string that create_task accepted enters a
\* phase handler - the development, analysis or deployment handler for
\* their types, the general handler for 'planning', 'general' and every
\* other string - and a call that returns normally returns that handler's
\* result; so a call fails only when a collaborator raises or a deployment
\* task has no project path.
C14_DispatchByType ==
    [][\A t \in Threads :
         /\ Dispatches(t) => At(t, "status_in_progress")'
         /\ (At(t, "set_result") /\ At(t, "done")') =>
              o_ret'[t][2].kind = DispatchedResult(OTask(t).type)
         /\ ExitsFailed(t) =>
              o_e[t][1] \in {MissingProjectPath} \cup
                {Failure(name) : name \in {"analyze_and_plan", "create_project", "perform_analysis",
                                           "execute_general_task", "deploy_project"}}]_vars

\* ---------------------------------------------------------------- commit step
\* thread t's call is in the except clause, or has ended by raising
OnFailurePath(t) ==
    \/ o_pc[t] \in {"except", "set_error", "log_failed"}
    \/ o_pc[t] = "done" /\ o_ret[t][1] = "raise" /\ OTask(t).status = FAILED

\* C15: the version-control commit is called at the end of every execution
\* whose planning and phase handler succeeded - a call that goes on to
\* Completed or returns normally has called it - and a commit that reports a
\* failed status makes the task end Failed with the error raised to the
\* caller: no call goes on to Completed after a failed commit.
C15_CommitFailureFailsTask ==
    \A t \in Threads :
      /\ o_pc[t] \in {"status_completed", "set_result"} => o_commit[t] # None
      /\ (o_pc[t] = "done" /\ o_ret[t][1] = "result") => o_commit[t] # None
      /\ o_commit[t] = Some("failed") => OnFailurePath(t)

\* ---------------------------------------------------------------- add_task placement
\* this step is an add_task call; the new Task has the id added + 1
Adds == added' = added + 1
\* the Task with this id in the scheduled bucket
ScheduledTask(bucket, id) == bucket[IndexOf(bucket, id)]

\* C16: add_task puts the Task in the scheduled bucket only when its due time
\* is in the future at the time of the call; with no due time, or a due time
\* that is not in the future, the Task goes directly to the ready queue. In
\* both cases add_task returns the Task's id.
C16_ScheduledOnlyIfFuture ==
    [][Adds =>
         LET id == added + 1
         IN  /\ \E c \in Callers : c_ret'[c] = ReturnId(id)
             /\ id \in Keys(scheduled_tasks') =>
                  ScheduledTask(scheduled_tasks', id).scheduled_at[1] > now
             /\ id \notin Keys(scheduled_tasks') => id \in Ids(InQueue(task_queue'))]_vars

\* ---------------------------------------------------------------- get_next_task never blocks
\* a caller of get_next_task waits in queue.get() on an empty queue
Blocked(c) == c_pc[c] = "get" /\ task_queue = <<>>

\* C17: get_next_task never blocks, also when several callers invoke it at
\* once and there are fewer ready tasks than callers: no caller is ever
\* waiting in the queue's get() on an empty queue.
C17_NextNeverBlocks == \A c \in NextCallers : ~Blocked(c)

\* ---------------------------------------------------------------- export_tasks / import_tasks
\* json.dump of an Optional[str] field: None is written as null, a string as a string
json_dump(value) == IF value = None THEN <<"null">> ELSE <<"string", value[1]>>
\* json.load of what json_dump wrote
json_load(text) == IF text[1] = "null" THEN None ELSE Some(text[2])
\* dataclasses.asdict(task), written by json.dump
asdict(task) ==
    [id |-> task.id, priority |-> task.priority, scheduled_at |-> json_dump(task.scheduled_at)]
\* Task(**task_data) on a record read by json.load
Task_from(fields) ==
    Task(fields.id, fields.priority, json_load(fields.scheduled_at))

\* export_tasks (lines 252-258): the scheduled, active, completed and failed
\* buckets are written, each as {id: asdict(task)}; the ready queue is not
export_tasks ==
    [scheduled_tasks |-> [k \in DOMAIN scheduled_tasks |-> asdict(scheduled_tasks[k])],
     active_tasks |-> [k \in DOMAIN active_tasks |-> asdict(active_tasks[k])],
     completed_tasks |-> [k \in DOMAIN completed_tasks |-> asdict(completed_tasks[k])],
     failed_tasks |-> [k \in DOMAIN failed_tasks |-> asdict(failed_tasks[k])]]

\* import_tasks (lines 275-285) on a fresh TaskManager: the scheduled, completed
\* and failed buckets are restored; the active bucket of the file is not read
import_tasks(import_data) ==
    [task_queue |-> <<>>,
     scheduled_tasks |-> [k \in DOMAIN import_data.scheduled_tasks |->
                            Task_from(import_data.scheduled_tasks[k])],
     active_tasks |-> EmptyDict,
     completed_tasks |-> [k \in DOMAIN import_data.completed_tasks |->
                            Task_from(import_data.completed_tasks[k])],
     failed_tasks |-> [k \in DOMAIN import_data.failed_tasks |->
                         Task_from(import_data.failed_tasks[k])]]

\* C18: export followed by import into a fresh store is a round trip: in every
\* reachable state the fresh store has, in each bucket (ready queue, scheduled,
\* active, completed, failed), the same tasks - the same ids with the same
\* priority and scheduled time - as the exporting store.
C18_ExportImportRoundTrip ==
    LET fresh == import_tasks(export_tasks)
    IN  /\ InQueue(fresh.task_queue) = InQueue(task_queue)
        /\ InQueue(fresh.scheduled_tasks) = InQueue(scheduled_tasks)
        /\ Values(fresh.active_tasks) = Values(active_tasks)
        /\ Values(fresh.completed_tasks) = Values(completed_tasks)
        /\ Values(fresh.failed_tasks) = Values(failed_tasks)

\* ---------------------------------------------------------------- create_task
\* this step is a create_task call: the registry gets a new key
Creates == DOMAIN tasks' # DOMAIN tasks
\* the places of the ready queue that hold a Task with this id
QueuedAt(queue, id) == {k \in 1..Len(queue) : queue[k].id = id}

\* C19: create_task always succeeds with an id that was not in the registry;
\* afterwards the registry holds that id with status Created, progress 0, no
\* logs, no result and no error, every other record is as before, and the
\* ready queue has grown by exactly one Task, which has the same id and the
\* requested priority.
C19_CreateRegistersAndQueues ==
    [][Creates =>
         LET id == added + 1
         IN  /\ id \notin DOMAIN tasks
             /\ DOMAIN tasks' = DOMAIN tasks \cup {id}
             /\ \A other \in DOMAIN tasks : tasks'[other] = tasks[other]
             /\ tasks'[id].status = CREATED
             /\ tasks'[id].progress = 0
             /\ tasks'[id].logs = <<>>
             /\ tasks'[id].result = None
             /\ tasks'[id].error = None
             /\ Len(task_queue') = Len(task_queue) + 1
             /\ Cardinality(QueuedAt(task_queue', id)) = 1
             /\ \A k \in QueuedAt(task_queue', id) :
                  task_queue'[k].priority = priority_map(tasks'[id].priority)
             /\ InQueue(task_queue) \subseteq InQueue(task_queue')
             /\ id \notin Keys(scheduled_tasks')]_vars

\* a task has just been created: it is in the registry as Created and in the
\* ready queue, and no execute_task call has been made yet
C19_Witness ==
    /\ calls = 0
    /\ \E id \in DOMAIN tasks :
         /\ tasks[id].status = CREATED
         /\ tasks[id].priority = "high"
         /\ \E k \in QueuedAt(task_queue, id) : task_queue[k].priority = HIGH

\* ---------------------------------------------------------------- cancellation
\* a cancel_task(id) call has returned while the registry's task is still
\* Created, that is before any execute_task call on it has begun
CancelBeforeExecution(id) ==
    /\ id \in DOMAIN tasks
    /\ tasks[id].status = CREATED
    /\ \E c \in Callers : c_pc[c] = "done" /\ c_arg[c] = Some(id) /\ c_ret[c][1] = "bool"
IsCancelled(id) == id \in DOMAIN tasks /\ tasks[id].status = CANCELLED

\* C20: Cancelled is a reachable terminal status: a task cancelled before its
\* execution begins ends in status Cancelled; Cancelled is entered from
\* Created only, never from Planning or InProgress; and the status of a
\* Cancelled task never changes afterwards.
C20_CancelledReachableTerminal ==
    /\ \A id \in RequestedIds : CancelBeforeExecution(id) ~> IsCancelled(id)
    /\ [][\A id \in DOMAIN tasks :
            /\ (tasks[id].status # CANCELLED /\ tasks'[id].status = CANCELLED) =>
                 tasks[id].status = CREATED
            /\ tasks[id].status = CANCELLED => tasks'[id].status = CANCELLED]_vars

\* ---------------------------------------------------------------- shutdown
\* the scheduler thread puts a promoted task into the ready queue in this step
Puts == s_pc = "put" /\ s_pc' # "put"

\* C21: shutdown() always returns, the scheduler loop eventually
\* terminates once shutdown() has been called, and once shutdown() has
\* returned no scheduled task is promoted into the ready queue any more.
C21_NoPromotionAfterShutdown ==
    /\ \A c \in Callers : c_pc[c] = "join" ~> shutdown_returned
    /\ ~scheduler_running ~> s_pc = "exit"
    /\ [][shutdown_returned => ~Puts]_vars

\* C21, with the bounded join: shutdown() always returns and the scheduler loop eventually
\* terminates once shutdown() has been called; no scan begins after the flag
\* has been cleared, and nothing is promoted after the loop has ended - but
\* the iteration in progress may still promote after shutdown() has returned.
C21_ShutdownStopsLoop ==
    /\ \A c \in Callers : c_pc[c] = "join" ~> shutdown_returned
    /\ ~scheduler_running ~> s_pc = "exit"
    /\ [][/\ ~scheduler_running => ~(s_pc = "start" /\ s_pc' = "scan")
          /\ ~scheduler_running => ~scheduler_running'
          /\ s_pc = "exit" => s_pc' = "exit" /\ ~Puts]_vars

\* shutdown() has returned and the loop has ended with a task still scheduled
C21_Witness == shutdown_returned /\ s_pc = "exit" /\ scheduled_tasks # <<>>

\* ---------------------------------------------------------------- progress
\* C22: a task's progress is an integer in 0..100 and never decreases during
\* an execute_task call (calls on one id following one another): it is only
\* set to 80 and then to 100, and it is 100 when the call reaches the commit.
C22_ProgressNeverDecreases ==
    [][\A id \in DOMAIN tasks :
         /\ tasks'[id].progress \in 0..100
         /\ tasks'[id].progress >= tasks[id].progress
         /\ tasks'[id].progress # tasks[id].progress => tasks'[id].progress \in {80, 100}
         /\ \A t \in Threads :
              (At(t, "commit") /\ o_task_id[t] = id) => tasks[id].progress = 100]_vars

\* ---------------------------------------------------------------- bucket membership
\* get_task_statistics (lines 183-189): the five counts
get_task_statistics ==
    [queued |-> Len(task_queue), scheduled |-> Len(scheduled_tasks),
     active |-> Cardinality(DOMAIN active_tasks),
     completed |-> Cardinality(DOMAIN completed_tasks),
     failed |-> Cardinality(DOMAIN failed_tasks)]
\* how many of the five buckets hold a Task with this id
BucketCount(id) ==
    Cardinality({k \in 1..Len(task_queue) : task_queue[k].id = id})
      + Cardinality({k \in 1..Len(scheduled_tasks) : scheduled_tasks[k].id = id})
      + (IF id \in DOMAIN active_tasks THEN 1 ELSE 0)
      + (IF id \in DOMAIN completed_tasks THEN 1 ELSE 0)
      + (IF id \in DOMAIN failed_tasks THEN 1 ELSE 0)

\* C23: bucket moves are atomic: in every reachable state each task that has
\* been added and not cancelled is in exactly one of the five buckets, and the
\* five counts of get_task_statistics sum to the number of tasks added minus
\* the number cancelled.
C23_ExactlyOneBucket ==
    /\ \A id \in (1..added) \ cancelled : BucketCount(id) = 1
    /\ LET stats == get_task_statistics
       IN  stats.queued + stats.scheduled + stats.active + stats.completed + stats.failed
             = added - Cardinality(cancelled)

\* ---------------------------------------------------------------- errors under interleaving
\* C24: under every interleaving of the scheduler loop with add, cancel,
\* complete and fail, no TaskManager operation raises an error to its caller
\* (cancel_task returns a boolean), and no scan iteration of the scheduler
\* loop is aborted by an error.
C24_NoErrorUnderInterleaving ==
    /\ \A c \in Callers : c_pc[c] = "done" => c_ret[c][1] # "raise"
    /\ s_pc # "error"

\* ---------------------------------------------------------------- eventual promotion
\* the task with this id is in the scheduled bucket and its due time has elapsed
DueScheduled(id) ==
    /\ id \in Keys(scheduled_tasks)
    /\ fromisoformat_ok(ScheduledTask(scheduled_tasks, id).scheduled_at[1])
    /\ ScheduledTask(scheduled_tasks, id).scheduled_at[1] <= now

\* C25: while the scheduler loop runs, every task in the scheduled bucket
\* whose due time has elapsed is eventually moved into the ready queue unless
\* it is cancelled first - also after a failed scan, and also when another
\* scheduled entry (one with a malformed due time) is the cause of the failure.
C25_DueTaskEventuallyPromoted ==
    \A id \in 1..MaxTasks : DueScheduled(id) ~> (id \in promoted \/ id \in cancelled)

\* ---------------------------------------------------------------- errors inside the scheduler loop
\* an exception is raised inside the try block of the loop in this step
ScanFails == s_pc # "error" /\ s_pc' = "error"
\* 1 when the scheduler thread holds the Task with this id between pop and put
HeldByScheduler(id) == IF s_task # None /\ s_task[1].id = id THEN 1 ELSE 0

\* C26: an error raised inside a scan iteration never ends the scheduler loop
\* and never reaches a caller: the step that fails changes no bucket and no
\* caller's state, the thread goes to the back-off wait and from there begins
\* another scan; the tasks the failed iteration has not moved are still in
\* the scheduled bucket, and no task is lost or duplicated.
C26_ScanErrorIsContained ==
    /\ [][ScanFails => /\ UNCHANGED <<task_queue, scheduled_tasks, active_tasks,
                                      completed_tasks, failed_tasks, callervars>>
                       /\ s_task' = None]_vars
    /\ [][s_pc = "error" => s_pc' \in {"error", "start"}]_vars
    /\ [](s_pc # "exit")
    /\ s_pc = "error" ~> s_pc = "scan"
    /\ [](\A id \in 1..added :
            BucketCount(id) + HeldByScheduler(id) = IF id \in cancelled THEN 0 ELSE 1)

\* a scan has failed while a task whose due time has elapsed is scheduled
C26_Witness == s_pc = "error" /\ \E id \in 1..added : DueScheduled(id)

\* ---------------------------------------------------------------- order of the steps
\* thread t calls the planning collaborator / a phase handler's collaborator /
\* the version-control commit in this step
CallsPlanning(t) == At(t, "analyze_and_plan") /\ ~At(t, "analyze_and_plan")'
CallsHandler(t) ==
    \/ At(t, "phase") /\ OHandler(t) # "deployment" /\ ~At(t, "phase")'
    \/ At(t, "deploy_project") /\ ~At(t, "deploy_project")'
CallsCommit(t) == At(t, "commit") /\ ~At(t, "commit")'
PlanningFailed(t) == o_e[t] = Some(Failure("analyze_and_plan"))

\* C27: within an execute_task call (calls on one id following one another)
\* the steps occur in a fixed order: the planning collaborator is called with
\* the status Planning; a phase handler's collaborator is called only with
\* the status InProgress, which is entered from Planning; the commit is called
\* only after the handler has returned a result; Completed is set only after
\* the commit. When planning fails the task goes from Planning to Failed and
\* the call ends with neither a handler result nor a commit.
C27_FixedStepOrder ==
    [][\A t \in Threads :
         /\ CallsPlanning(t) => OTask(t).status = PLANNING
         /\ CallsHandler(t) => OTask(t).status = IN_PROGRESS /\ OTask(t).plan # None
         /\ CallsCommit(t) => OTask(t).status = IN_PROGRESS /\ o_result[t] # None
         /\ \A id \in DOMAIN tasks :
              /\ (tasks[id].status # IN_PROGRESS /\ tasks'[id].status = IN_PROGRESS) =>
                   tasks[id].status = PLANNING
              /\ (tasks[id].status # COMPLETED /\ tasks'[id].status = COMPLETED) =>
                   /\ tasks[id].status = IN_PROGRESS
                   /\ \E u \in Threads : o_task_id[u] = id /\ o_commit[u] # None
         /\ (At(t, "except") /\ PlanningFailed(t)) => OTask(t).status = PLANNING
         /\ (ExitsFailed(t) /\ PlanningFailed(t)) =>
              /\ OTask(t).status = FAILED
              /\ o_result[t] = None
              /\ o_commit[t] = None]_vars

\* a call has ended by raising the planning collaborator's failure
C27_Witness ==
    \E t \in Threads :
      /\ At(t, "done")
      /\ o_ret[t] = Raise(Failure("analyze_and_plan"))
      /\ OTask(t).status = FAILED

\* ---------------------------------------------------------------- execute_task and the buckets
\* C28: execute_task, whether it succeeds or fails, leaves the five buckets of
\* the TaskManager unchanged: no step of a call dequeues the task, moves it to
\* active, completed or failed, or queues it again. A task that is Completed
\* or Failed in the registry is therefore still in the ready queue and still
\* counted as queued by get_task_statistics.
C28_ExecuteLeavesBuckets ==
    [][/\ (\E t \in Threads : o_pc'[t] # o_pc[t]) => UNCHANGED Buckets
       /\ \A id \in DOMAIN tasks' :
            tasks'[id].status \in {COMPLETED, FAILED} =>
              /\ Cardinality(QueuedAt(task_queue', id)) = 1
              /\ get_task_statistics'.queued >= 1
              /\ BucketCount(id)' = 1]_vars

\* a task has been executed to Completed and is still in the ready queue
C28_Witness ==
    \E id \in DOMAIN tasks :
      /\ tasks[id].status = COMPLETED
      /\ tasks[id].result # None
      /\ QueuedAt(task_queue, id) # {}
      /\ \A t \in Threads : At(t, "idle")

\* ---------------------------------------------------------------- registry and TaskManager
\* a caller's TaskManager operation takes a step
StoreStep == \E c \in Callers : c_pc'[c] # c_pc[c]

\* C29: the TaskManager's Task and the registry record of a task are
\* independent: no TaskManager operation changes a field of a registry record;
\* in particular complete_task and fail_task on a task made by create_task
\* leave the record's metadata, result and error as they were.
C29_StoreLeavesRegistry ==
    [][StoreStep =>
         /\ tasks' = tasks
         /\ \A id \in DOMAIN tasks : metadata'[id] = metadata[id]]_vars

\* ---------------------------------------------------------------- Completed and its result
\* C30: in every state a concurrent get_task_status or list_tasks can observe,
\* the middle of an execute_task call included, a task whose status is
\* Completed has a result: the result is recorded no later than the status.
C30_CompletedHasResult ==
    \A id \in DOMAIN tasks : tasks[id].status = COMPLETED => tasks[id].result # None

====
